---- MODULE Spec2Model ----
(***************************************************************************)
(* VPNaaS backend: the HTTP handlers of api.Server over the in-memory      *)
(* registry `users`, the VPNManager workflow against the Kubernetes API,   *)
(* and the models.User record.                                             *)
(*                                                                         *)
(* Every HTTP request runs in its own goroutine.  A handler is cut into    *)
(* steps at its blocking Kubernetes calls; the code between two calls      *)
(* touches shared state only at the places modelled in the step.  A       *)
(* handler that answers frees its slot in the same step; resp holds the    *)
(* answer of the step just taken, so a predicate on resp is a              *)
(* postcondition of the answering step.                                    *)
(* Spec takes ListUsers, which has no blocking call, as one step;          *)
(* ParallelSpec lets the steps of other handlers fall into its range loops *)
(* over the unsynchronized map.  TelemetrySpec applies the counting        *)
(* methods of models.User, which no handler calls, to stored records.      *)
(* FrontendSpec is the browser's side: the store of UserContext.js and its *)
(* calls in flight, with the server seen through its answers.              *)
(* Telemetry that no property reads (request counters, durations, error    *)
(* counters, gauges) is left out.  Time is logical: now counts the readings *)
(* of time.Now() that were stored in a record.                             *)
(***************************************************************************)
EXTENDS Integers, Sequences, FiniteSets, TLC

\* ------------------------------------------------------------------ bounds
\* Number of requests in flight at the same time.
NumRequests == 2
\* Number of models.NewUser calls (fresh UUIDs) in a behaviour.
MaxUsers == 2
\* Steps of other handlers that fall into one ListUsers call, which has no
\* blocking call of its own.
MaxOverlap == 3
\* Calls of the telemetry methods in one run.
MaxTelemetry == 3
\* Rows of the users table in the browser.
MaxListed == 2

\* --------------------------------------------------------------- constants
\* retry.DefaultRetry: wait.Backoff{Steps: 5, Duration: 10ms, Factor: 1.0}.
DefaultRetrySteps == 5
\* generateWireGuardConfig: len(user.ID) % 254 + 1.
AddrModulus == 254
StatusOK == 200
StatusCreated == 201
StatusBadRequest == 400
StatusNotFound == 404
StatusConflict == 409
StatusInternalServerError == 500
\* An int64 is four 16-bit limbs, the least significant first.
Limb == 65536

VARIABLES
    users,            \* Server.users: the keys of the map; key id points to heap[id]
    heap,             \* the *models.User objects that are still referenced
    configMaps,       \* names of the ConfigMaps in the namespace
    pods,             \* pod name -> Status.Phase of the pods in the namespace
    reqs,             \* the handler goroutines in flight: position and locals
    resp,             \* the response written by the step just taken, if any
    nextID,           \* index of the next fresh UUID and key pair
    totalConnections, \* metrics.TotalConnections
    now,              \* the last reading of time.Now() stored in a record
    ui                \* the browser: the UserProvider's store and its pending calls

vars == <<users, heap, configMaps, pods, reqs, resp, nextID, totalConnections,
          now, ui>>

Requests == 1..NumRequests

\* ------------------------------------------------------------------ inputs
\* The n-th value of uuid.New().String(): the canonical 36-character form.
UUID(n) == "00000000-0000-4000-8000-00000000000" \o ToString(n)
IDs == {UUID(n) : n \in 1..MaxUsers}

\* Bodies of POST /users: two distinct users, a body that shares its
\* username with the first and its email with the second, and two bodies
\* that fail the binding.
CreateUserRequests ==
    { [Username |-> "alice", Email |-> "alice@x.com"],
      [Username |-> "bob",   Email |-> "bob@x.com"],
      [Username |-> "alice", Email |-> "bob@x.com"],
      [Username |-> "",      Email |-> "alice@x.com"],
      [Username |-> "bob",   Email |-> "bob.x.com"] }

\* corev1.PodPhase values a VPN pod goes through.
PodPhases == {"Pending", "Running", "Failed"}

\* ---------------------------------------------------------------- config
\* viper defaults of config.Load and the endpoint of the deployment.
WireguardPort == "51820"
VpnEndpoint == "your-vpn-endpoint.com"

\* ------------------------------------------------------------ models.User
\* binding:"required" on Username; binding:"required,email" on Email.
IsEmail(e) ==
    /\ Cardinality({i \in 1..Len(e) : SubSeq(e, i, i) = "@"}) = 1
    /\ SubSeq(e, 1, 1) # "@"
    /\ SubSeq(e, Len(e), Len(e)) # "@"

ShouldBindJSON(req) ==
    /\ req.Username # ""
    /\ req.Email # ""
    /\ IsEmail(req.Email)

\* ------------------------------------------------------------------- int64
Zero64 == <<0, 0, 0, 0>>
One64 == <<1, 0, 0, 0>>
MinusOne64 == <<Limb - 1, Limb - 1, Limb - 1, Limb - 1>>
MaxInt64 == <<Limb - 1, Limb - 1, Limb - 1, (Limb \div 2) - 1>>
MinInt64 == <<0, 0, 0, Limb \div 2>>

\* Go's a + b on int64: two's complement, wraps around silently.
Add64(a, b) ==
    LET s1 == a[1] + b[1]
        s2 == a[2] + b[2] + (s1 \div Limb)
        s3 == a[3] + b[3] + (s2 \div Limb)
        s4 == a[4] + b[4] + (s3 \div Limb)
    IN  <<s1 % Limb, s2 % Limb, s3 % Limb, s4 % Limb>>

\* The sign bit of an int64.
Negative64(a) == a[4] >= Limb \div 2

\* Go's a < b on int64.
Less64(a, b) ==
    IF Negative64(a) # Negative64(b)
    THEN Negative64(a)
    ELSE \E i \in 1..4 :
            /\ a[i] < b[i]
            /\ \A j \in (i + 1)..4 : a[j] = b[j]

\* models.NewUser at the time t; LastLogin is the zero time.
NewUser(id, username, email, t) ==
    [ID |-> id, Username |-> username, Email |-> email, Status |-> "active",
     CreatedAt |-> t, UpdatedAt |-> t, LastLogin |-> 0,
     PodName |-> "", PodIP |-> "", PublicKey |-> "", PrivateKey |-> "",
     ConfigData |-> <<>>, DataUsage |-> Zero64, ConnectionCount |-> 0]

\* The keys json.Marshal emits for a User: omitempty drops an empty value.
JSONKeys(u) ==
    {"id", "username", "email", "status", "created_at", "updated_at",
     "last_login", "data_usage", "connection_count"}
        \cup (IF u.PodName # "" THEN {"pod_name"} ELSE {})
        \cup (IF u.PodIP # "" THEN {"pod_ip"} ELSE {})
        \cup (IF u.PublicKey # "" THEN {"public_key"} ELSE {})
        \cup (IF u.PrivateKey # "" THEN {"private_key"} ELSE {})
        \cup (IF u.ConfigData # <<>> THEN {"config_data"} ELSE {})

JSONValue(u, k) ==
    CASE k = "id" -> u.ID
      [] k = "username" -> u.Username
      [] k = "email" -> u.Email
      [] k = "status" -> u.Status
      [] k = "created_at" -> u.CreatedAt
      [] k = "updated_at" -> u.UpdatedAt
      [] k = "last_login" -> u.LastLogin
      [] k = "pod_name" -> u.PodName
      [] k = "pod_ip" -> u.PodIP
      [] k = "public_key" -> u.PublicKey
      [] k = "private_key" -> u.PrivateKey
      [] k = "config_data" -> u.ConfigData
      [] k = "data_usage" -> u.DataUsage
      [] k = "connection_count" -> u.ConnectionCount

\* c.JSON of a *models.User.
MarshalUser(u) == [k \in JSONKeys(u) |-> JSONValue(u, k)]

\* ------------------------------------------------------------- VPNManager
\* generateWireGuardKeys: the private key is the base64 of 32 fresh random
\* bytes (k counts the keys generated so far), the public key the base64 of
\* its curve25519 base-point multiple.
PrivateKeyOf(k) == "priv" \o ToString(k)
PublicKeyOf(k) == "pub" \o ToString(k)

\* generateWireGuardConfig: userIP.
UserIP(id) == "10.0.0." \o ToString((Len(id) % AddrModulus) + 1)

Line(section, key, value) == [section |-> section, key |-> key, value |-> value]

\* generateWireGuardConfig: the rendered text, line by line.
generateWireGuardConfig(user, k) ==
    << Line("Interface", "PrivateKey", PrivateKeyOf(k)),
       Line("Interface", "Address", UserIP(user.ID) \o "/24"),
       Line("Interface", "ListenPort", WireguardPort),
       Line("Interface", "PostUp",
            "iptables -A FORWARD -i %i -j ACCEPT; iptables -t nat -A POSTROUTING -o eth0 -j MASQUERADE"),
       Line("Interface", "PostDown",
            "iptables -D FORWARD -i %i -j ACCEPT; iptables -t nat -D POSTROUTING -o eth0 -j MASQUERADE"),
       Line("Peer", "PublicKey", PublicKeyOf(k)),
       Line("Peer", "AllowedIPs", "0.0.0.0/0"),
       Line("Peer", "Endpoint", VpnEndpoint \o ":" \o WireguardPort),
       Line("Peer", "PersistentKeepalive", "25") >>

\* createVPNPod: the names of the pod and of its ConfigMap.
PodNameOf(id) == "vpn-" \o id
ConfigMapNameOf(id) == "vpn-config-" \o id

\* The pod object returned by Pods().Create: not scheduled yet, no PodIP.
CreatedPodIP == ""

\* pod.Status.PodIP of a pod the platform reports as running: the address
\* the cluster network gave it.
RunningPodIP(name) == "ip-of-" \o name

\* Mutant of PodReady: any pod the Get returns counts as ready.
PodReady_AnyPhase(phase) == phase # ""

\* waitForPodReady: the attempt succeeds when the Get succeeded and the
\* phase is PodRunning ("" stands for a failed Get).
PodReady(phase) == phase = "Running"

\* Mutant of BackoffExhausted: the loop gives up one attempt early.
BackoffExhausted_OneEarly(steps) == steps = 2

\* wait.ExponentialBackoff under retry.OnError with an always-true
\* retriable: the attempt that runs with Steps == 1 is the last one.
BackoffExhausted(steps) == steps = 1

\* The error of a Pods(ns).Get or Pods(ns).Delete call on one pod: none, the
\* API server's NotFound, or the call did not get through.
APIError(ok, present) ==
    IF ~ok THEN "Unavailable" ELSE IF ~present THEN "NotFound" ELSE ""

\* ------------------------------------------------------------- api.Server
\* Mutant of IsDuplicate: only a record equal in both fields is a duplicate.
IsDuplicate_Both(user, req) ==
    user.Username = req.Username /\ user.Email = req.Email

\* CreateUser: the duplicate test of one registry record.
IsDuplicate(user, req) ==
    user.Username = req.Username \/ user.Email = req.Email

\* ---------------------------------------------------------------- requests
\* The local state of a handler.  steps, low, high and snaps are the history
\* of a ListUsers call that is inside its range loops: the steps other
\* handlers took, the keys that were in the map during the whole call so
\* far, the keys that were in it at some time, and the contents the registry
\* had at each instant.
IdleReq ==
    [pc |-> "idle", kind |-> "", uid |-> "", username |-> "", email |-> "",
     steps |-> 0, polls |-> 0, calls |-> 0, lastPhase |-> "", err |-> "",
     low |-> {}, high |-> {}, snaps |-> {}]

NoResp ==
    [kind |-> "", uid |-> "", username |-> "", email |-> "", code |-> 0,
     stage |-> "", polls |-> 0, calls |-> 0, lastPhase |-> "", err |-> "",
     body |-> {}, text |-> <<>>]

\* The answer of handler q: status code, the stage that failed (the label of
\* metrics.RecordError), the error of its last Kubernetes call, the JSON users
\* of c.JSON and the text of c.String.
Response(q, code, stage, body, text) ==
    [kind |-> q.kind, uid |-> q.uid, username |-> q.username, email |-> q.email,
     code |-> code, stage |-> stage, polls |-> q.polls, calls |-> q.calls,
     lastPhase |-> q.lastPhase, err |-> q.err, body |-> body, text |-> text]

\* The goroutines are anonymous: a new request takes the lowest free slot.
Free(r) ==
    /\ reqs[r].pc = "idle"
    /\ \A x \in Requests : x < r => reqs[x].pc # "idle"

\* User objects a running handler holds a pointer to.
Referenced(rq) ==
    {rq[r].uid : r \in {x \in Requests : rq[x].pc # "idle"}}
        \cup UNION {rq[r].high : r \in Requests}

\* Go's garbage collector: an object lives while the map or a handler
\* points to it.
Collect(h, us, rq) == [id \in (DOMAIN h) \cap (us \cup Referenced(rq)) |-> h[id]]

\* What c.JSON would send for the registry us with the objects h.
View(h, us) == {MarshalUser(h[id]) : id \in us}

\* A step of handler r: the other handlers that are iterating the map see
\* the registry us.
Observe(r, rq, h, us) ==
    [x \in Requests |->
        IF x # r /\ rq[x].pc = "rangeUsers"
        THEN [rq[x] EXCEPT !.steps = @ + 1,
                           !.low = @ \cap us, !.high = @ \cup us,
                           !.snaps = @ \cup {View(h, us)}]
        ELSE rq[x]]

\* Handler r can take a step during the ListUsers calls that are under way.
Overlaps(r) ==
    \A x \in Requests \ {r} :
        reqs[x].pc = "rangeUsers" => reqs[x].steps < MaxOverlap

\* Handler r goes on as q, blocked in its next call.
Continue(r, q, h, us) ==
    /\ Overlaps(r)
    /\ reqs' = Observe(r, [reqs EXCEPT ![r] = q], h, us)
    /\ resp' = NoResp
    /\ users' = us
    /\ heap' = Collect(h, us, reqs')

\* Handler r writes the response rs and returns.
Finish(r, rs, h, us) ==
    /\ Overlaps(r)
    /\ reqs' = Observe(r, [reqs EXCEPT ![r] = IdleReq], h, us)
    /\ resp' = rs
    /\ users' = us
    /\ heap' = Collect(h, us, reqs')

\* A Go map / object graph with nothing in it.
Empty == [x \in {} |-> x]

\* ------------------------------------------------- frontend: UserContext
\* JavaScript's null is the empty set here and a value v is {v}.
null == {}

initialState == [users |-> <<>>, loading |-> FALSE, error |-> null, stats |-> null]

\* [...state.users].filter(user => user.id !== id)
RECURSIVE filter(_, _)
filter(list, id) ==
    IF list = <<>>
    THEN <<>>
    ELSE IF Head(list).id # id
    THEN <<Head(list)>> \o filter(Tail(list), id)
    ELSE filter(Tail(list), id)

userReducer(state, action) ==
    CASE action.type = "SET_LOADING" ->
            [state EXCEPT !.loading = action.payload]
      [] action.type = "SET_ERROR" ->
            [state EXCEPT !.error = {action.payload}, !.loading = FALSE]
      [] action.type = "SET_USERS" ->
            [state EXCEPT !.users = action.payload, !.loading = FALSE,
                          !.error = null]
      [] action.type = "ADD_USER" ->
            [state EXCEPT !.users = Append(@, action.payload)]
      [] action.type = "DELETE_USER" ->
            [state EXCEPT !.users = filter(@, action.payload)]
      [] action.type = "SET_STATS" ->
            [state EXCEPT !.stats = {action.payload}]
      [] OTHER -> state

\* The page before the UserProvider is mounted.
NoUI == [state |-> initialState, mounted |-> FALSE, calls |-> {}]

TypeOK ==
    /\ users \subseteq IDs
    /\ users \subseteq DOMAIN heap
    /\ DOMAIN heap \subseteq IDs
    /\ nextID \in 1..(MaxUsers + 1)
    /\ totalConnections \in Nat
    /\ now \in Nat
    /\ ui.state.loading \in BOOLEAN
    /\ ui.mounted \in BOOLEAN
    /\ \A call \in ui.calls :
          call.fn \in {"fetchUsers", "createUser", "deleteUser", "fetchStats"}
    /\ DOMAIN pods \subseteq {PodNameOf(id) : id \in IDs}
    /\ \A p \in DOMAIN pods : pods[p] \in PodPhases
    /\ configMaps \subseteq {ConfigMapNameOf(id) : id \in IDs}
    /\ DOMAIN reqs = Requests
    /\ \A r \in Requests :
          reqs[r].pc \notin {"idle", "rangeUsers"} => reqs[r].uid \in DOMAIN heap
    /\ \A r \in Requests :
          /\ reqs[r].low \subseteq reqs[r].high
          /\ reqs[r].high \subseteq DOMAIN heap

Init ==
    /\ users = {}
    /\ heap = Empty
    /\ configMaps = {}
    /\ pods = Empty
    /\ reqs = [r \in Requests |-> IdleReq]
    /\ resp = NoResp
    /\ nextID = 1
    /\ totalConnections = 0
    /\ now = 0
    /\ ui = NoUI

\* ------------------------------------------------------ Server.CreateUser
\* Mutant of CreateUser: the new user is put into the map before
\* CreateUserVPN has created anything for it.
CreateUser_StoreFirst(r, req) ==
    /\ Free(r)
    /\ LET q == [IdleReq EXCEPT !.kind = "create", !.username = req.Username,
                                !.email = req.Email]
       IN  \/ /\ ~ShouldBindJSON(req)
              /\ Finish(r, Response(q, StatusBadRequest, "validation", {}, <<>>),
                        heap, users)
              /\ UNCHANGED <<nextID, now, ui>>
           \/ /\ ShouldBindJSON(req)
              /\ \E id \in users : IsDuplicate(heap[id], req)
              /\ Finish(r, Response(q, StatusConflict, "duplicate_user", {}, <<>>),
                        heap, users)
              /\ UNCHANGED <<nextID, now, ui>>
           \/ /\ ShouldBindJSON(req)
              /\ ~\E id \in users : IsDuplicate(heap[id], req)
              \* rand.Read failed: the new object was never shared.
              /\ Finish(r, Response(q, StatusInternalServerError, "keys", {}, <<>>),
                        heap, users)
              /\ UNCHANGED <<nextID, now, ui>>
           \/ /\ ShouldBindJSON(req)
              /\ ~\E id \in users : IsDuplicate(heap[id], req)
              /\ nextID <= MaxUsers
              /\ LET id == UUID(nextID)
                     k  == nextID
                     u0 == NewUser(id, req.Username, req.Email, now + 1)
                     u1 == [u0 EXCEPT !.PublicKey = PublicKeyOf(k),
                                      !.PrivateKey = PrivateKeyOf(k)]
                     u2 == [u1 EXCEPT !.ConfigData = generateWireGuardConfig(u1, k)]
                 IN  Continue(r, [q EXCEPT !.pc = "createConfigMap", !.uid = id],
                              (id :> u2) @@ heap, users \cup {id})
              /\ nextID' = nextID + 1
              /\ now' = now + 1
    /\ UNCHANGED <<configMaps, pods, totalConnections, ui>>

\* Bind and validate, scan the registry for a duplicate, NewUser, then the
\* first part of CreateUserVPN: generate the keys and render the config.
\* The handler then blocks in ConfigMaps().Create.
CreateUser(r, req) ==
    /\ Free(r)
    /\ LET q == [IdleReq EXCEPT !.kind = "create", !.username = req.Username,
                                !.email = req.Email]
       IN  \/ /\ ~ShouldBindJSON(req)
              /\ Finish(r, Response(q, StatusBadRequest, "validation", {}, <<>>),
                        heap, users)
              /\ UNCHANGED <<nextID, now, ui>>
           \/ /\ ShouldBindJSON(req)
              /\ \E id \in users : IsDuplicate(heap[id], req)
              /\ Finish(r, Response(q, StatusConflict, "duplicate_user", {}, <<>>),
                        heap, users)
              /\ UNCHANGED <<nextID, now, ui>>
           \/ /\ ShouldBindJSON(req)
              /\ ~\E id \in users : IsDuplicate(heap[id], req)
              \* rand.Read failed: the new object was never shared.
              /\ Finish(r, Response(q, StatusInternalServerError, "keys", {}, <<>>),
                        heap, users)
              /\ UNCHANGED <<nextID, now, ui>>
           \/ /\ ShouldBindJSON(req)
              /\ ~\E id \in users : IsDuplicate(heap[id], req)
              /\ nextID <= MaxUsers
              /\ LET id == UUID(nextID)
                     k  == nextID
                     u0 == NewUser(id, req.Username, req.Email, now + 1)
                     u1 == [u0 EXCEPT !.PublicKey = PublicKeyOf(k),
                                      !.PrivateKey = PrivateKeyOf(k)]
                     u2 == [u1 EXCEPT !.ConfigData = generateWireGuardConfig(u1, k)]
                 IN  Continue(r, [q EXCEPT !.pc = "createConfigMap", !.uid = id],
                              (id :> u2) @@ heap, users)
              /\ nextID' = nextID + 1
              /\ now' = now + 1
    /\ UNCHANGED <<configMaps, pods, totalConnections, ui>>

\* Mutant of CreateConfigMap: the error of ConfigMaps(ns).Create is dropped
\* and createVPNPod goes on to create the pod.
CreateConfigMap_GoOn(r) ==
    /\ reqs[r].pc = "createConfigMap"
    /\ LET q == [reqs[r] EXCEPT !.calls = @ + 1]
           name == ConfigMapNameOf(q.uid)
       IN  \E ok \in BOOLEAN :
             /\ configMaps' = IF ok THEN configMaps \cup {name} ELSE configMaps
             /\ Continue(r, [q EXCEPT !.pc = "createPod"], heap, users)
    /\ UNCHANGED <<pods, nextID, totalConnections, now, ui>>

\* createVPNPod: ConfigMaps(ns).Create returns.
CreateConfigMap(r) ==
    /\ reqs[r].pc = "createConfigMap"
    /\ LET q == [reqs[r] EXCEPT !.calls = @ + 1]
           name == ConfigMapNameOf(q.uid)
       IN  \E ok \in BOOLEAN :
             IF ok /\ name \notin configMaps
             THEN /\ configMaps' = configMaps \cup {name}
                  /\ Continue(r, [q EXCEPT !.pc = "createPod"], heap, users)
             ELSE /\ UNCHANGED configMaps
                  /\ Finish(r, Response(q, StatusInternalServerError, "configmap",
                                        {}, <<>>),
                            heap, users)
    /\ UNCHANGED <<pods, nextID, totalConnections, now, ui>>

\* createVPNPod: Pods(ns).Create returns; on success waitForPodReady starts
\* with the retry budget of retry.DefaultRetry.
CreatePod(r) ==
    /\ reqs[r].pc = "createPod"
    /\ LET q == [reqs[r] EXCEPT !.calls = @ + 1]
           name == PodNameOf(q.uid)
       IN  \E ok \in BOOLEAN :
             IF ok /\ name \notin DOMAIN pods
             THEN /\ pods' = (name :> "Pending") @@ pods
                  /\ Continue(r, [q EXCEPT !.pc = "waitForPodReady",
                                           !.steps = DefaultRetrySteps],
                              heap, users)
             ELSE /\ UNCHANGED pods
                  /\ Finish(r, Response(q, StatusInternalServerError, "pod", {}, <<>>),
                            heap, users)
    /\ UNCHANGED <<configMaps, nextID, totalConnections, now, ui>>

\* One attempt of waitForPodReady: Pods(ns).Get returns.  When the pod is
\* running, createVPNPod and CreateUserVPN return and CreateUser stores the
\* user and answers 201; no call blocks in between.
WaitForPodReady(r) ==
    /\ reqs[r].pc = "waitForPodReady"
    /\ \E ok \in BOOLEAN :
         LET name == PodNameOf(reqs[r].uid)
             phase == IF ok /\ name \in DOMAIN pods THEN pods[name] ELSE ""
             q == [reqs[r] EXCEPT !.calls = @ + 1, !.polls = @ + 1,
                                  !.lastPhase = phase]
             id == q.uid
         IN  IF PodReady(phase)
             THEN LET u == [heap[id] EXCEPT !.PodName = name,
                                            !.PodIP = CreatedPodIP]
                  IN  /\ Finish(r, Response(q, StatusCreated, "", {MarshalUser(u)}, <<>>),
                                [heap EXCEPT ![id] = u], users \cup {id})
                      \* IncrementConnections in CreateUserVPN and in CreateUser.
                      /\ totalConnections' = totalConnections + 1 + 1
             ELSE /\ IF BackoffExhausted(q.steps)
                     THEN Finish(r, Response(q, StatusInternalServerError, "wait",
                                             {}, <<>>),
                                 heap, users)
                     ELSE Continue(r, [q EXCEPT !.steps = @ - 1], heap, users)
                  /\ UNCHANGED totalConnections
    /\ UNCHANGED <<configMaps, pods, nextID, now, ui>>

\* ------------------------------------------------------ Server.DeleteUser
\* Mutant of DeleteUser: without the lookup a missing id is deleted like a
\* user that has no pod (delete on a missing key is a no-op) and answered 200.
DeleteUser_NoLookup(r, id) ==
    /\ Free(r)
    /\ LET q == [IdleReq EXCEPT !.kind = "delete", !.uid = id]
       IN  IF id \notin users \/ heap[id].PodName = ""
           THEN Finish(r, Response(q, StatusOK, "", {}, <<>>), heap, users \ {id})
           ELSE Continue(r, [q EXCEPT !.pc = "deletePod"], heap, users)
    /\ UNCHANGED <<configMaps, pods, nextID, totalConnections, now, ui>>

\* Look the user up; DeleteUserVPN then blocks in Pods().Delete, unless the
\* user has no pod name.
DeleteUser(r, id) ==
    /\ Free(r)
    /\ LET q == [IdleReq EXCEPT !.kind = "delete", !.uid = id]
       IN  IF id \notin users
           THEN Finish(r, Response(q, StatusNotFound, "", {}, <<>>), heap, users)
           ELSE IF heap[id].PodName = ""
           THEN Finish(r, Response(q, StatusOK, "", {}, <<>>), heap, users \ {id})
           ELSE Continue(r, [q EXCEPT !.pc = "deletePod"], heap, users)
    /\ UNCHANGED <<configMaps, pods, nextID, totalConnections, now, ui>>

\* Pods(ns).Delete returns: nil, a NotFound error when the pod is absent, or
\* another error when the call did not get through.  DeleteUserVPN wraps
\* either error and DeleteUser only logs and counts it ("vpn_deletion").  The
\* user is removed from the map and the handler answers 200.
DeletePod(r) ==
    /\ reqs[r].pc = "deletePod"
    /\ \E ok \in BOOLEAN :
         LET name == heap[reqs[r].uid].PodName
             q == [reqs[r] EXCEPT !.calls = @ + 1,
                                  !.err = APIError(ok, name \in DOMAIN pods)]
         IN  IF q.err = ""
             THEN /\ pods' = [p \in (DOMAIN pods) \ {name} |-> pods[p]]
                  /\ Finish(r, Response(q, StatusOK, "", {}, <<>>),
                            heap, users \ {q.uid})
             ELSE /\ UNCHANGED pods
                  /\ Finish(r, Response(q, StatusOK, "vpn_deletion", {}, <<>>),
                            heap, users \ {q.uid})
    /\ UNCHANGED <<configMaps, nextID, totalConnections, now, ui>>

\* --------------------------------------------------------- Server.GetUser
GetUser(r, id) ==
    /\ Free(r)
    /\ LET q == [IdleReq EXCEPT !.kind = "get", !.uid = id]
       IN  IF id \notin users
           THEN Finish(r, Response(q, StatusNotFound, "", {}, <<>>), heap, users)
           ELSE IF heap[id].PodName = ""
           THEN Finish(r, Response(q, StatusOK, "", {MarshalUser(heap[id])}, <<>>),
                       heap, users)
           ELSE Continue(r, [q EXCEPT !.pc = "getPodStatus"], heap, users)
    /\ UNCHANGED <<configMaps, pods, nextID, totalConnections, now, ui>>

\* Mutant of GetPodStatus: the phase the platform reports is dropped and the
\* stored status is returned.
GetPodStatus_Stored(r) ==
    /\ reqs[r].pc = "getPodStatus"
    /\ \E ok \in BOOLEAN :
         LET id == reqs[r].uid
             name == heap[id].PodName
             q == [reqs[r] EXCEPT !.calls = @ + 1,
                                  !.err = APIError(ok, name \in DOMAIN pods)]
         IN  Finish(r, Response(q, StatusOK, "", {MarshalUser(heap[id])}, <<>>),
                    heap, users)
    /\ UNCHANGED <<configMaps, pods, nextID, totalConnections, now, ui>>

\* Mutant of GetPodStatus: the address the platform reports is written into
\* the user object together with the phase.
GetPodStatus_WithIP(r) ==
    /\ reqs[r].pc = "getPodStatus"
    /\ \E ok \in BOOLEAN :
         LET id == reqs[r].uid
             name == heap[id].PodName
             q == [reqs[r] EXCEPT !.calls = @ + 1,
                                  !.err = APIError(ok, name \in DOMAIN pods)]
             h == IF q.err = ""
                  THEN [heap EXCEPT ![id].Status = pods[name],
                                    ![id].PodIP = RunningPodIP(name)]
                  ELSE heap
         IN  Finish(r, Response(q, StatusOK, "", {MarshalUser(h[id])}, <<>>), h, users)
    /\ UNCHANGED <<configMaps, pods, nextID, totalConnections, now, ui>>

\* GetPodStatus returns: on success the phase is written through the
\* pointer into the user object, whether or not it is still in the map.
GetPodStatus(r) ==
    /\ reqs[r].pc = "getPodStatus"
    /\ \E ok \in BOOLEAN :
         LET id == reqs[r].uid
             name == heap[id].PodName
             q == [reqs[r] EXCEPT !.calls = @ + 1,
                                  !.err = APIError(ok, name \in DOMAIN pods)]
             h == IF q.err = ""
                  THEN [heap EXCEPT ![id].Status = pods[name]]
                  ELSE heap
         IN  Finish(r, Response(q, StatusOK, "", {MarshalUser(h[id])}, <<>>), h, users)
    /\ UNCHANGED <<configMaps, pods, nextID, totalConnections, now, ui>>

\* ------------------------------------------------------- Server.ListUsers
\* The handler has no blocking call: it runs from the range loop to c.JSON
\* with no step of another handler in between.
ListUsers(r) ==
    /\ Free(r)
    /\ Finish(r, Response([IdleReq EXCEPT !.kind = "list"], StatusOK, "",
                          View(heap, users), <<>>),
              heap, users)
    /\ UNCHANGED <<configMaps, pods, nextID, totalConnections, now, ui>>

\* Goroutines run in parallel: ListUsers enters its range loop over s.users
\* while other handlers go on.
ListUsersRange(r) ==
    /\ Free(r)
    /\ Continue(r, [IdleReq EXCEPT !.kind = "list", !.pc = "rangeUsers",
                                   !.low = users, !.high = users,
                                   !.snaps = {View(heap, users)}],
                heap, users)
    /\ UNCHANGED <<configMaps, pods, nextID, totalConnections, now, ui>>

\* ListUsers leaves its range loops (the one of updateUserMetrics too) and
\* sends the users it has collected, as they are now.  When the map was
\* written during the loops the iteration is a data race: it has seen every
\* key that was there all the time and any of those that were there for a
\* while, or the Go runtime has noticed the write and ended the process
\* ("fatal error: concurrent map iteration and map write"), which then starts
\* again with an empty map.
ListUsersRespond(r) ==
    /\ reqs[r].pc = "rangeUsers"
    /\ \/ /\ \E seen \in SUBSET reqs[r].high :
                /\ reqs[r].low \subseteq seen
                /\ Finish(r, Response(reqs[r], StatusOK, "", View(heap, seen), <<>>),
                          heap, users)
          /\ UNCHANGED <<configMaps, pods, nextID, totalConnections, now, ui>>
       \/ /\ reqs[r].low # reqs[r].high
          /\ reqs' = [x \in Requests |-> IdleReq]
          /\ resp' = [NoResp EXCEPT !.kind = "list", !.stage = "fatal"]
          /\ users' = {}
          /\ heap' = Empty
          /\ totalConnections' = 0
          /\ UNCHANGED <<configMaps, pods, nextID, now, ui>>

\* -------------------------------------------------------- Server.GetStats
\* Mutant of calculateStats: the total is counted in the "active" case.
RECURSIVE calculateStats_InActiveCase(_, _)
calculateStats_InActiveCase(h, us) ==
    IF us = {}
    THEN [total_users |-> 0, active_users |-> 0, inactive_users |-> 0,
          suspended_users |-> 0, total_data_usage |-> Zero64,
          total_connections |-> 0]
    ELSE LET id == CHOOSE x \in us : TRUE
             user == h[id]
             stats == calculateStats_InActiveCase(h, us \ {id})
         IN  [total_users |-> stats.total_users
                                 + (IF user.Status = "active" THEN 1 ELSE 0),
              active_users |-> stats.active_users
                                 + (IF user.Status = "active" THEN 1 ELSE 0),
              inactive_users |-> stats.inactive_users
                                 + (IF user.Status = "inactive" THEN 1 ELSE 0),
              suspended_users |-> stats.suspended_users
                                 + (IF user.Status = "suspended" THEN 1 ELSE 0),
              total_data_usage |-> Add64(stats.total_data_usage, user.DataUsage),
              total_connections |-> stats.total_connections + user.ConnectionCount]

\* calculateStats: one pass over the map; the result as JSON of UserStats.
RECURSIVE calculateStats(_, _)
calculateStats(h, us) ==
    IF us = {}
    THEN [total_users |-> 0, active_users |-> 0, inactive_users |-> 0,
          suspended_users |-> 0, total_data_usage |-> Zero64,
          total_connections |-> 0]
    ELSE LET id == CHOOSE x \in us : TRUE
             user == h[id]
             stats == calculateStats(h, us \ {id})
         IN  [total_users |-> stats.total_users + 1,
              active_users |-> stats.active_users
                                 + (IF user.Status = "active" THEN 1 ELSE 0),
              inactive_users |-> stats.inactive_users
                                 + (IF user.Status = "inactive" THEN 1 ELSE 0),
              suspended_users |-> stats.suspended_users
                                 + (IF user.Status = "suspended" THEN 1 ELSE 0),
              total_data_usage |-> Add64(stats.total_data_usage, user.DataUsage),
              total_connections |-> stats.total_connections + user.ConnectionCount]

\* The handler has no blocking call.
GetStats(r) ==
    /\ Free(r)
    /\ Finish(r, Response([IdleReq EXCEPT !.kind = "stats"], StatusOK, "",
                          {calculateStats(heap, users)}, <<>>),
              heap, users)
    /\ UNCHANGED <<configMaps, pods, nextID, totalConnections, now, ui>>

\* --------------------------------------------------- Server.GetUserConfig
\* Mutant of GetUserConfig: the test for an empty ConfigData comes first, on
\* the zero value of a missing user too, so an unknown id is answered like a
\* record without configuration, and a record is answered with the
\* configuration of any registry record.
GetUserConfig_AnyRecord(r, id) ==
    /\ Free(r)
    /\ LET q == [IdleReq EXCEPT !.kind = "config", !.uid = id]
       IN  IF id \notin users
           THEN Finish(r, Response(q, StatusNotFound, "config", {}, <<>>), heap, users)
           ELSE \E other \in users :
                   Finish(r, Response(q, StatusOK, "", {}, heap[other].ConfigData),
                          heap, users)
    /\ UNCHANGED <<configMaps, pods, nextID, totalConnections, now, ui>>

GetUserConfig(r, id) ==
    /\ Free(r)
    /\ LET q == [IdleReq EXCEPT !.kind = "config", !.uid = id]
       IN  IF id \notin users
           THEN Finish(r, Response(q, StatusNotFound, "user", {}, <<>>), heap, users)
           ELSE IF heap[id].ConfigData = <<>>
           THEN Finish(r, Response(q, StatusNotFound, "config", {}, <<>>), heap, users)
           ELSE Finish(r, Response(q, StatusOK, "", {}, heap[id].ConfigData),
                       heap, users)
    /\ UNCHANGED <<configMaps, pods, nextID, totalConnections, now, ui>>

\* ---------------------------------------------------------------- platform
\* The kubelet reports a new phase for a pod.
PodPhaseChange(name, phase) ==
    /\ name \in DOMAIN pods
    /\ \/ pods[name] = "Pending" /\ phase \in {"Running", "Failed"}
       \/ pods[name] = "Running" /\ phase = "Failed"
    /\ pods' = [pods EXCEPT ![name] = phase]
    /\ resp' = NoResp
    /\ UNCHANGED <<users, heap, configMaps, reqs, nextID, totalConnections, now, ui>>

Next ==
    \/ \E r \in Requests, req \in CreateUserRequests : CreateUser(r, req)
    \/ \E r \in Requests : CreateConfigMap(r)
    \/ \E r \in Requests : CreatePod(r)
    \/ \E r \in Requests : WaitForPodReady(r)
    \/ \E r \in Requests, id \in IDs : DeleteUser(r, id)
    \/ \E r \in Requests : DeletePod(r)
    \/ \E r \in Requests, id \in IDs : GetUser(r, id)
    \/ \E r \in Requests : GetPodStatus(r)
    \/ \E r \in Requests : ListUsers(r)
    \/ \E r \in Requests, id \in IDs : GetUserConfig(r, id)
    \/ \E r \in Requests : GetStats(r)
    \/ \E name \in DOMAIN pods, phase \in PodPhases : PodPhaseChange(name, phase)

Spec == Init /\ [][Next]_vars

\* The handlers on several cores: the handlers of Next that work on one
\* record, with ListUsers in two steps.
NextParallel ==
    \/ \E r \in Requests, req \in CreateUserRequests : CreateUser(r, req)
    \/ \E r \in Requests : CreateConfigMap(r)
    \/ \E r \in Requests : CreatePod(r)
    \/ \E r \in Requests : WaitForPodReady(r)
    \/ \E r \in Requests, id \in IDs : DeleteUser(r, id)
    \/ \E r \in Requests : DeletePod(r)
    \/ \E r \in Requests, id \in IDs : GetUser(r, id)
    \/ \E r \in Requests : GetPodStatus(r)
    \/ \E r \in Requests : ListUsersRange(r)
    \/ \E r \in Requests : ListUsersRespond(r)
    \/ \E r \in Requests, id \in IDs : GetUserConfig(r, id)
    \/ \E name \in DOMAIN pods, phase \in PodPhases : PodPhaseChange(name, phase)

ParallelSpec == Init /\ [][NextParallel]_vars

\* ------------------------------------------------- models.User telemetry
\* The methods of *User that count logins, connections and bytes.  No
\* handler calls them; they are applied here to the records of a registry
\* two creates have filled.

\* The record CreateUser stores for the n-th request it accepted.
StoredUser(n, req) ==
    LET u0 == NewUser(UUID(n), req.Username, req.Email, n)
        u1 == [u0 EXCEPT !.PublicKey = PublicKeyOf(n),
                         !.PrivateKey = PrivateKeyOf(n)]
    IN  [u1 EXCEPT !.ConfigData = generateWireGuardConfig(u1, n),
                   !.PodName = PodNameOf(UUID(n)),
                   !.PodIP = CreatedPodIP]

\* Arguments of AddDataUsage: a positive and a negative number of bytes
\* and the two ends of int64.
ByteCounts == {One64, MinusOne64, MaxInt64, MinInt64}

\* The state after alice and then bob were created, each answered 201 at
\* the first poll.
TelemetryInit ==
    LET alice == [Username |-> "alice", Email |-> "alice@x.com"]
        bob   == [Username |-> "bob",   Email |-> "bob@x.com"]
        q     == [IdleReq EXCEPT !.kind = "create", !.uid = UUID(2),
                                 !.username = bob.Username, !.email = bob.Email,
                                 !.steps = DefaultRetrySteps, !.polls = 1,
                                 !.calls = 3, !.lastPhase = "Running"]
    IN  /\ users = {UUID(1), UUID(2)}
        /\ heap = (UUID(1) :> StoredUser(1, alice)) @@ (UUID(2) :> StoredUser(2, bob))
        /\ configMaps = {ConfigMapNameOf(UUID(1)), ConfigMapNameOf(UUID(2))}
        /\ pods = (PodNameOf(UUID(1)) :> "Running") @@ (PodNameOf(UUID(2)) :> "Running")
        /\ reqs = [r \in Requests |-> IdleReq]
        /\ resp = Response(q, StatusCreated, "", {MarshalUser(StoredUser(2, bob))}, <<>>)
        /\ nextID = 3
        /\ totalConnections = 4
        /\ now = 2
        /\ ui = NoUI

\* The calls of one run are bounded.
TelemetryBudget == now < Cardinality(users) + MaxTelemetry

\* u.LastLogin = time.Now(); u.UpdatedAt = time.Now()
UpdateLastLogin(id) ==
    /\ TelemetryBudget
    /\ id \in users
    /\ heap' = [heap EXCEPT ![id].LastLogin = now + 1, ![id].UpdatedAt = now + 2]
    /\ now' = now + 2
    /\ resp' = NoResp
    /\ UNCHANGED <<users, configMaps, pods, reqs, nextID, totalConnections, ui>>

\* u.ConnectionCount++; u.UpdatedAt = time.Now()
IncrementConnectionCount(id) ==
    /\ TelemetryBudget
    /\ id \in users
    /\ heap' = [heap EXCEPT ![id].ConnectionCount = @ + 1, ![id].UpdatedAt = now + 1]
    /\ now' = now + 1
    /\ resp' = NoResp
    /\ UNCHANGED <<users, configMaps, pods, reqs, nextID, totalConnections, ui>>

\* u.DataUsage += bytes; u.UpdatedAt = time.Now()
AddDataUsage(id, bytes) ==
    /\ TelemetryBudget
    /\ id \in users
    /\ heap' = [heap EXCEPT ![id].DataUsage = Add64(@, bytes), ![id].UpdatedAt = now + 1]
    /\ now' = now + 1
    /\ resp' = NoResp
    /\ UNCHANGED <<users, configMaps, pods, reqs, nextID, totalConnections, ui>>

TelemetryNext ==
    \/ \E id \in IDs : UpdateLastLogin(id)
    \/ \E id \in IDs : IncrementConnectionCount(id)
    \/ \E id \in IDs, bytes \in ByteCounts : AddDataUsage(id, bytes)
    \/ \E r \in Requests : GetStats(r)

TelemetrySpec == TelemetryInit /\ [][TelemetryNext]_vars

\* ---------------------------------------------------- frontend: the pages
\* The UserProvider's functions, each up to its await and from it.  The
\* server is taken as what axios shows of it: a call resolves with a
\* payload or rejects with a message.

\* What the server can answer with: the JSON of the users it stores.
ServerUsers ==
    {MarshalUser(StoredUser(1, [Username |-> "alice", Email |-> "alice@x.com"])),
     MarshalUser(StoredUser(2, [Username |-> "bob", Email |-> "bob@x.com"]))}

\* response.data.users of GET /users.
UserLists ==
    {<<>>} \cup {<<u>> : u \in ServerUsers}

\* response.data.stats of GET /stats.
StatsPayloads ==
    {[total_users |-> n, active_users |-> n] : n \in 0..1}

\* error.message of a rejected axios call.
ErrorMessages == {"Network Error", "Request failed with status code 500"}

\* The form of the Users page.
FormData ==
    {[username |-> "alice", email |-> "alice@x.com"],
     [username |-> "bob", email |-> "bob@x.com"]}

Dispatch(action) == userReducer(ui.state, action)

Backend == <<users, heap, configMaps, pods, reqs, resp, nextID, totalConnections, now>>

\* useEffect of the UserProvider: fetchUsers() and fetchStats(), each up to
\* its await.
Mount ==
    /\ ~ui.mounted
    /\ ui' = [state |-> Dispatch([type |-> "SET_LOADING", payload |-> TRUE]),
              mounted |-> TRUE,
              calls |-> {[fn |-> "fetchUsers"], [fn |-> "fetchStats"]}]
    /\ UNCHANGED Backend

fetchUsersResolved ==
    /\ [fn |-> "fetchUsers"] \in ui.calls
    /\ \E list \in UserLists :
          ui' = [ui EXCEPT !.state = Dispatch([type |-> "SET_USERS", payload |-> list]),
                           !.calls = @ \ {[fn |-> "fetchUsers"]}]
    /\ UNCHANGED Backend

fetchUsersRejected ==
    /\ [fn |-> "fetchUsers"] \in ui.calls
    /\ \E msg \in ErrorMessages :
          ui' = [ui EXCEPT !.state = Dispatch([type |-> "SET_ERROR", payload |-> msg]),
                           !.calls = @ \ {[fn |-> "fetchUsers"]}]
    /\ UNCHANGED Backend

\* handleSubmit of the Users page, which shows its form only while loading
\* is false; createUser up to its await.
createUser(userData) ==
    /\ ui.mounted
    /\ ~ui.state.loading
    /\ Len(ui.state.users) < MaxListed
    /\ ui' = [ui EXCEPT !.state = Dispatch([type |-> "SET_LOADING", payload |-> TRUE]),
                        !.calls = @ \cup {[fn |-> "createUser", data |-> userData]}]
    /\ UNCHANGED Backend

createUserResolved(call) ==
    /\ call \in ui.calls
    /\ call.fn = "createUser"
    /\ \E user \in ServerUsers :
          /\ user.username = call.data.username
          /\ ui' = [ui EXCEPT !.state = Dispatch([type |-> "ADD_USER", payload |-> user]),
                              !.calls = @ \ {call}]
    /\ UNCHANGED Backend

createUserRejected(call) ==
    /\ call \in ui.calls
    /\ call.fn = "createUser"
    /\ \E msg \in ErrorMessages :
          ui' = [ui EXCEPT !.state = Dispatch([type |-> "SET_ERROR", payload |-> msg]),
                           !.calls = @ \ {call}]
    /\ UNCHANGED Backend

\* handleDelete of the Users page, from a row of its table; deleteUser up
\* to its await.
deleteUser(userId) ==
    /\ ui.mounted
    /\ ~ui.state.loading
    /\ \E i \in 1..Len(ui.state.users) : ui.state.users[i].id = userId
    /\ ui' = [ui EXCEPT !.calls = @ \cup {[fn |-> "deleteUser", id |-> userId]}]
    /\ UNCHANGED Backend

deleteUserResolved(call) ==
    /\ call \in ui.calls
    /\ call.fn = "deleteUser"
    /\ ui' = [ui EXCEPT !.state = Dispatch([type |-> "DELETE_USER", payload |-> call.id]),
                        !.calls = @ \ {call}]
    /\ UNCHANGED Backend

\* The catch of deleteUser only shows a toast.
deleteUserRejected(call) ==
    /\ call \in ui.calls
    /\ call.fn = "deleteUser"
    /\ ui' = [ui EXCEPT !.calls = @ \ {call}]
    /\ UNCHANGED Backend

\* The interval of the Metrics page: fetchStats up to its await.
fetchStats ==
    /\ ui.mounted
    /\ [fn |-> "fetchStats"] \notin ui.calls
    /\ ui' = [ui EXCEPT !.calls = @ \cup {[fn |-> "fetchStats"]}]
    /\ UNCHANGED Backend

fetchStatsResolved ==
    /\ [fn |-> "fetchStats"] \in ui.calls
    /\ \E stats \in StatsPayloads :
          ui' = [ui EXCEPT !.state = Dispatch([type |-> "SET_STATS", payload |-> stats]),
                           !.calls = @ \ {[fn |-> "fetchStats"]}]
    /\ UNCHANGED Backend

\* The catch of fetchStats only logs.
fetchStatsRejected ==
    /\ [fn |-> "fetchStats"] \in ui.calls
    /\ ui' = [ui EXCEPT !.calls = @ \ {[fn |-> "fetchStats"]}]
    /\ UNCHANGED Backend

FrontendNext ==
    \/ Mount
    \/ fetchUsersResolved
    \/ fetchUsersRejected
    \/ \E userData \in FormData : createUser(userData)
    \/ \E call \in ui.calls : createUserResolved(call)
    \/ \E call \in ui.calls : createUserRejected(call)
    \/ \E userId \in IDs : deleteUser(userId)
    \/ \E call \in ui.calls : deleteUserResolved(call)
    \/ \E call \in ui.calls : deleteUserRejected(call)
    \/ fetchStats
    \/ fetchStatsResolved
    \/ fetchStatsRejected

FrontendSpec == Init /\ [][FrontendNext]_vars

\* ============================================================== properties

\* A registry record has the username or the email of a create request.
SameIdentity(u, username, email) == u.Username = username \/ u.Email = email

Registered(username, email) ==
    \E id \in users : SameIdentity(heap[id], username, email)

\* The step is the first step of a create handler that answers at once.
CreateAnsweredAtOnce == resp'.kind = "create" /\ resp'.calls = 0

\* The provisioning stages of a create that failed after NewUser.
ProvisioningStages == {"configmap", "pod", "wait"}

\* The Address line of a rendered configuration.
AddressOf(cfg) ==
    LET i == CHOOSE j \in DOMAIN cfg :
                 cfg[j].section = "Interface" /\ cfg[j].key = "Address"
    IN  cfg[i].value

\* C1: a create whose username or email equals that of a record in the
\* registry is answered 409 Conflict: it never starts provisioning, it makes
\* no platform call, and the registry, its records and the platform are the
\* same after the answer as before (so the identity still has the records it
\* had).
C1_Step ==
    /\ \A r \in Requests :
          (reqs[r].pc = "idle" /\ reqs'[r].pc = "createConfigMap")
             => ~Registered(reqs'[r].username, reqs'[r].email)
    /\ ( /\ CreateAnsweredAtOnce
         /\ resp'.username # ""
         /\ IsEmail(resp'.email)
         /\ Registered(resp'.username, resp'.email) )
          => resp'.code = StatusConflict
    /\ resp'.code = StatusConflict
          => /\ Registered(resp'.username, resp'.email)
             /\ resp'.calls = 0
             /\ UNCHANGED <<users, heap, configMaps, pods, totalConnections>>

C1_DuplicateCreateRejected == [][C1_Step]_vars

\* C1 witness: alice is registered and a create for alice with another email
\* has just been answered 409.
C1_Witness ==
    /\ resp.kind = "create"
    /\ resp.code = StatusConflict
    /\ \E id \in users :
          /\ heap[id].Username = resp.username
          /\ heap[id].Email # resp.email
    /\ Cardinality({id \in users : SameIdentity(heap[id], resp.username, resp.email)}) = 1

\* C2: in every reachable state no two records of the registry have the same
\* username or the same email.
C2_UniqueIdentity ==
    \A a \in users : \A b \in users \ {a} :
        /\ heap[a].Username # heap[b].Username
        /\ heap[a].Email # heap[b].Email

\* C3: in every reachable state no two records of the registry have the same
\* assigned address in their rendered configuration.
C3_UniqueAddress ==
    \A a \in users : \A b \in users \ {a} :
        AddressOf(heap[a].ConfigData) # AddressOf(heap[b].ConfigData)

\* C4: the response of the list operation contains neither the private key
\* nor the rendered configuration of any instance.
C4_ListHidesPrivateKey ==
    resp.kind = "list" =>
        \A o \in resp.body :
            "private_key" \notin DOMAIN o /\ "config_data" \notin DOMAIN o

\* C5: a create answers 201 only when the ConfigMap and the pod exist, the
\* last poll saw the pod running and the record is in the registry; a create
\* answered 400 or 409 has made no platform call and leaves the registry and
\* the platform unchanged.
C5_Step ==
    /\ (resp'.kind = "create" /\ resp'.code = StatusCreated)
          => /\ resp'.uid \in users'
             /\ resp'.uid \notin users
             /\ heap'[resp'.uid].PodName = PodNameOf(resp'.uid)
             /\ ConfigMapNameOf(resp'.uid) \in configMaps'
             /\ PodNameOf(resp'.uid) \in DOMAIN pods'
             /\ pods'[PodNameOf(resp'.uid)] = "Running"
             /\ resp'.calls >= 3
    /\ (resp'.kind = "create" /\ resp'.code \in {StatusBadRequest, StatusConflict})
          => /\ resp'.calls = 0
             /\ UNCHANGED <<users, heap, configMaps, pods>>
    /\ (resp'.kind = "create" /\ users' # users) => resp'.code = StatusCreated

C5_CreateAnswers == [][C5_Step]_vars

\* C5 witness: a create has just been answered 201 and its record is in the
\* registry.
C5_Witness ==
    /\ resp.kind = "create"
    /\ resp.code = StatusCreated
    /\ resp.uid \in users

\* C6: when provisioning fails the record is kept in the registry with
\* status Failed.
C6_FailedRecordKept ==
    (resp.kind = "create" /\ resp.code = StatusInternalServerError
        /\ resp.stage \in ProvisioningStages)
      => (resp.uid \in users /\ heap[resp.uid].Status = "Failed")

\* C7: after a failed provisioning attempt (pod creation error, or readiness
\* never reached) neither the ConfigMap nor a pod of that instance remains on
\* the platform.
C7_FailedCreateCleansUp ==
    (resp.kind = "create" /\ resp.code = StatusInternalServerError
        /\ resp.stage \in {"pod", "wait"})
      => /\ ConfigMapNameOf(resp.uid) \notin configMaps
         /\ PodNameOf(resp.uid) \notin DOMAIN pods

\* C8: readiness polling makes at most DefaultRetrySteps status attempts; a
\* create that fails in readiness polling has made exactly DefaultRetrySteps
\* attempts, none of which saw the pod running, and a create that succeeds
\* has made between one and DefaultRetrySteps attempts.
C8_PollBudget ==
    /\ \A r \in Requests :
          reqs[r].pc = "waitForPodReady" =>
              /\ reqs[r].polls < DefaultRetrySteps
              /\ reqs[r].lastPhase # "Running"
    /\ (resp.kind = "create" /\ resp.stage = "wait")
          => /\ resp.code = StatusInternalServerError
             /\ resp.polls = DefaultRetrySteps
             /\ resp.lastPhase # "Running"
    /\ (resp.kind = "create" /\ resp.code = StatusCreated)
          => resp.polls \in 1..DefaultRetrySteps

\* C8 witness: the pod was still pending at the last attempt and the create
\* has just failed in readiness polling.
C8_Witness ==
    /\ resp.kind = "create"
    /\ resp.stage = "wait"
    /\ resp.lastPhase = "Pending"
    /\ resp.polls = DefaultRetrySteps

\* C9: a readiness poll that sees the pod failed ends provisioning: no
\* create goes on polling after such an attempt.
C9_FailedPhaseIsTerminal ==
    \A r \in Requests :
        reqs[r].pc = "waitForPodReady" => reqs[r].lastPhase # "Failed"

\* C10: after a delete has answered 200, neither the pod nor the ConfigMap of
\* the instance exists on the platform and the registry has no entry for its
\* id.
C10_DeleteRemovesAll ==
    (resp.kind = "delete" /\ resp.code = StatusOK)
      => /\ PodNameOf(resp.uid) \notin DOMAIN pods
         /\ ConfigMapNameOf(resp.uid) \notin configMaps
         /\ resp.uid \notin users

\* C11: when the platform call of a delete fails, the record stays in the
\* registry and the caller gets an error answer, not 200.
C11_FailedDeleteKeepsEntry ==
    (resp.kind = "delete" /\ resp.calls = 1 /\ resp.err = "Unavailable")
      => /\ resp.uid \in users
         /\ resp.code # StatusOK

\* C12: a delete of an id that is not in the registry is answered 404, has
\* made no platform call, and leaves the registry, its records and the
\* platform as they were; only a delete that found its id goes on to the
\* platform.
C12_Step ==
    /\ \A r \in Requests :
          (reqs[r].pc = "idle" /\ reqs'[r].pc = "deletePod")
             => reqs'[r].uid \in users
    /\ (resp'.kind = "delete" /\ resp'.calls = 0 /\ resp'.uid \notin users)
          => resp'.code = StatusNotFound
    /\ (resp'.kind = "delete" /\ resp'.code = StatusNotFound)
          => /\ resp'.uid \notin users
             /\ resp'.calls = 0
             /\ UNCHANGED <<users, heap, configMaps, pods>>

C12_DeleteUnknownIsNotFound == [][C12_Step]_vars

\* C12 witness: the id was created and deleted before (its pod is gone, its
\* ConfigMap is still there), another record is in the registry, and a delete
\* of the id has just been answered 404.
C12_Witness ==
    /\ resp.kind = "delete"
    /\ resp.code = StatusNotFound
    /\ resp.uid \notin users
    /\ ConfigMapNameOf(resp.uid) \in configMaps
    /\ PodNameOf(resp.uid) \notin DOMAIN pods
    /\ \A r \in Requests : reqs[r].uid # resp.uid
    /\ users # {}

\* C13: a delete that finds the pod already absent from the platform is not
\* an error: DeleteUserVPN reports success (no error is logged or counted),
\* the handler answers 200 and the registry entry is removed.
C13_AbsentPodIsNoError ==
    (resp.kind = "delete" /\ resp.calls = 1 /\ resp.err = "NotFound")
      => /\ resp.stage = ""
         /\ resp.code = StatusOK
         /\ resp.uid \notin users

\* C14: a get of an id that is not in the registry is answered 404 without
\* a platform call; a get of a registry record that has a pod name queries
\* the platform and answers 200 with that record, whose status is the phase
\* the platform reports for the pod at the time of the query, or the status
\* stored before the query when the query fails.
C14_Step ==
    /\ \A r \in Requests :
          (reqs[r].pc = "idle" /\ reqs'[r].pc = "getPodStatus")
             => /\ reqs'[r].uid \in users
                /\ heap[reqs'[r].uid].PodName # ""
    /\ (resp'.kind = "get" /\ resp'.calls = 0)
          => /\ resp'.code = StatusNotFound <=> resp'.uid \notin users
             /\ resp'.uid \in users => heap[resp'.uid].PodName = ""
    /\ (resp'.kind = "get" /\ resp'.code = StatusNotFound)
          => /\ resp'.calls = 0
             /\ resp'.body = {}
    /\ \A r \in Requests :
          (reqs[r].pc = "getPodStatus" /\ reqs'[r].pc = "idle")
             => LET id == reqs[r].uid
                    name == heap[id].PodName
                    reported == IF resp'.err = "" /\ name \in DOMAIN pods
                                THEN pods[name]
                                ELSE heap[id].Status
                IN  /\ resp'.kind = "get"
                    /\ resp'.uid = id
                    /\ resp'.code = StatusOK
                    /\ resp'.err = "" => name \in DOMAIN pods
                    /\ \E o \in resp'.body :
                          /\ resp'.body = {o}
                          /\ o.id = id
                          /\ o.username = heap[id].Username
                          /\ o.status = reported

ValueOf(cfg, section, key) ==
    LET i == CHOOSE j \in DOMAIN cfg :
                 cfg[j].section = section /\ cfg[j].key = key
    IN  cfg[i].value

\* C15: get configuration answers 404 for an id that is not in the registry
\* and for a record whose configuration is empty; otherwise it answers 200
\* with exactly the configuration text stored in the record, which is the
\* one rendered at creation: it carries the private key of the record, and
\* no step changes the stored text of a registry record.
C15_Step ==
    /\ resp'.kind = "config"
          => /\ resp'.calls = 0
             /\ UNCHANGED <<users, heap, configMaps, pods>>
             /\ resp'.code \in {StatusOK, StatusNotFound}
             /\ resp'.code = StatusNotFound
                   <=> (resp'.uid \notin users \/ heap[resp'.uid].ConfigData = <<>>)
             /\ resp'.code = StatusNotFound => resp'.text = <<>>
             /\ resp'.code = StatusOK
                   => /\ resp'.text = heap[resp'.uid].ConfigData
                      /\ ValueOf(resp'.text, "Interface", "PrivateKey")
                            = heap[resp'.uid].PrivateKey
    /\ \A id \in users \cap users' :
          heap'[id].ConfigData = heap[id].ConfigData
    /\ \A id \in users' \ users :
          \E r \in Requests :
             /\ reqs[r].kind = "create"
             /\ reqs[r].uid = id
             /\ heap'[id].ConfigData = heap[id].ConfigData

C15_ConfigIsStoredText == [][C15_Step]_vars

\* C15 witness: two records are in the registry and the configuration of the
\* second has just been returned.
C15_Witness ==
    /\ resp.kind = "config"
    /\ resp.code = StatusOK
    /\ resp.text # <<>>
    /\ resp.text = heap[resp.uid].ConfigData
    /\ \E other \in users \ {resp.uid} : heap[other].ConfigData # resp.text

\* C16: after a create answered 201, the record in the registry holds the
\* name of the created pod and a pod address that is not empty and equals
\* the address the platform reports for the running pod.
C16_CommittedPodAddress ==
    (resp.kind = "create" /\ resp.code = StatusCreated)
      => /\ resp.uid \in users
         /\ heap[resp.uid].PodName = PodNameOf(resp.uid)
         /\ heap[resp.uid].PodIP # ""
         /\ heap[resp.uid].PodIP = RunningPodIP(PodNameOf(resp.uid))

\* The lifecycle state a stored status stands for.  A record enters the
\* registry only after its pod was seen running, so "active", the status of
\* NewUser, stands for Running there; the other values are pod phases.
Lifecycle(status) ==
    CASE status = "active" -> "Running"
      [] status = "Pending" -> "Provisioning"
      [] OTHER -> status

\* The edges of the lifecycle graph.
LifecycleEdges ==
    {<<"Requested", "Provisioning">>, <<"Provisioning", "Running">>,
     <<"Provisioning", "Failed">>, <<"Running", "Terminating">>,
     <<"Terminating", "Terminated">>}

\* b is a, or comes after a along the lifecycle graph.
Forward(a, b) ==
    \/ a = b
    \/ <<a, b>> \in LifecycleEdges
    \/ \E c \in {"Provisioning", "Running", "Terminating"} :
          /\ <<a, c>> \in LifecycleEdges
          /\ \/ <<c, b>> \in LifecycleEdges
             \/ \E d \in {"Running", "Terminating"} :
                   <<c, d>> \in LifecycleEdges /\ <<d, b>> \in LifecycleEdges

\* C17: in every step the stored status of every registry record stays the
\* same or moves forward along the lifecycle graph.
C17_Step ==
    \A id \in users \cap users' :
        Forward(Lifecycle(heap[id].Status), Lifecycle(heap'[id].Status))

C17_StatusMovesForward == [][C17_Step]_vars

\* C18: no request writes the registry map while another request is inside
\* its range loop over the map.
C18_NoConcurrentRegistryAccess ==
    \A r \in Requests :
        reqs[r].pc = "rangeUsers" => reqs[r].low = reqs[r].high

\* C19: the users a list call returns are the contents of the registry, the
\* set of records and every field of each, at one instant during the call.
C19_Step ==
    \A r \in Requests :
        ( /\ reqs[r].pc = "rangeUsers"
          /\ reqs'[r].pc = "idle"
          /\ resp'.kind = "list"
          /\ resp'.code = StatusOK )
          => resp'.body \in reqs[r].snaps

C19_ListIsSnapshot == [][C19_Step]_vars

\* A delete of id that a client sends now is not answered 404.
DeleteProceeds(id) ==
    \E r \in Requests : DeleteUser(r, id) /\ resp'.code # StatusNotFound

\* C20: while the provisioning of an instance is in flight no delete of it
\* goes on to the platform or the registry; once the provisioning has ended,
\* with the pod running (201) or failed (500 from a provisioning stage), a
\* delete of the instance is accepted.
C20_DeleteAfterProvisioning ==
    /\ \A r \in Requests :
          (reqs[r].kind = "create" /\ reqs[r].pc # "idle")
             => ~ENABLED DeleteProceeds(reqs[r].uid)
    /\ ( /\ resp.kind = "create"
         /\ \/ resp.code = StatusCreated
            \/ resp.code = StatusInternalServerError
                  /\ resp.stage \in ProvisioningStages )
          => ENABLED DeleteProceeds(resp.uid)

\* The sum of the data usage of the records S.
RECURSIVE DataUsageOf(_)
DataUsageOf(S) ==
    IF S = {} THEN Zero64
    ELSE LET id == CHOOSE x \in S : TRUE
         IN  Add64(heap[id].DataUsage, DataUsageOf(S \ {id}))

\* The sum of the connection counts of the records S.
RECURSIVE ConnectionsOf(_)
ConnectionsOf(S) ==
    IF S = {} THEN 0
    ELSE LET id == CHOOSE x \in S : TRUE
         IN  heap[id].ConnectionCount + ConnectionsOf(S \ {id})

\* The registry records whose status is st.
WithStatus(st) == {id \in users : heap[id].Status = st}

\* C21: the stats a get stats call returns have a total equal to the number
\* of registry records, the active, inactive and suspended counts equal to
\* the number of records with that status, and total data usage and total
\* connections equal to the sums of those counters over all records.
C21_StatsMatchRegistry ==
    (resp.kind = "stats")
      => /\ resp.code = StatusOK
         /\ \E st \in resp.body :
               /\ resp.body = {st}
               /\ st.total_users = Cardinality(users)
               /\ st.active_users = Cardinality(WithStatus("active"))
               /\ st.inactive_users = Cardinality(WithStatus("inactive"))
               /\ st.suspended_users = Cardinality(WithStatus("suspended"))
               /\ st.total_data_usage = DataUsageOf(users)
               /\ st.total_connections = ConnectionsOf(users)

\* C21 witness: stats were returned for a registry of two records of which
\* one is active and the other has a reconciled status.
C21_Witness ==
    /\ resp.kind = "stats"
    /\ Cardinality(users) = 2
    /\ Cardinality(WithStatus("active")) = 1
    /\ \E st \in resp.body : st.total_users = 2 /\ st.active_users = 1

\* Parsing a rendered configuration: the address of "Address = a/24", and
\* the host and the port of "Endpoint = host:port" (split at the last colon).
ParseAddress(v) ==
    LET i == CHOOSE j \in 1..Len(v) : SubSeq(v, j, j) = "/"
    IN  SubSeq(v, 1, i - 1)

LastColon(v) ==
    CHOOSE j \in 1..Len(v) :
        /\ SubSeq(v, j, j) = ":"
        /\ \A k \in (j + 1)..Len(v) : SubSeq(v, k, k) # ":"

ParseHost(v) == SubSeq(v, 1, LastColon(v) - 1)

ParsePort(v) == SubSeq(v, LastColon(v) + 1, Len(v))

\* The round trip of C22 for one record.
RoundTrip(u) ==
    /\ ValueOf(u.ConfigData, "Interface", "PrivateKey") = u.PrivateKey
    /\ ParseAddress(ValueOf(u.ConfigData, "Interface", "Address")) = UserIP(u.ID)
    /\ ParseHost(ValueOf(u.ConfigData, "Peer", "Endpoint")) = VpnEndpoint
    /\ ParsePort(ValueOf(u.ConfigData, "Peer", "Endpoint")) = WireguardPort
    /\ ValueOf(u.ConfigData, "Interface", "ListenPort") = WireguardPort

\* C22: the rendered configuration of every created instance parses back
\* into the private key, the address, the endpoint and the port it was
\* rendered from, and its peer public key is not the instance's own public
\* key.
C22_ConfigRoundTrip ==
    \A id \in users :
        /\ RoundTrip(heap[id])
        /\ ValueOf(heap[id].ConfigData, "Peer", "PublicKey") # heap[id].PublicKey

\* C23: a step that changes a field of a user object also advances its
\* UpdatedAt.
C23_Step ==
    \A id \in (DOMAIN heap) \cap (DOMAIN heap') :
        heap'[id] # heap[id] => heap'[id].UpdatedAt > heap[id].UpdatedAt

C23_MutationAdvancesUpdatedAt == [][C23_Step]_vars

\* C24: no call of AddDataUsage, whatever its argument, makes a record's
\* DataUsage smaller.
C24_Step ==
    \A id \in (DOMAIN heap) \cap (DOMAIN heap') :
        ~Less64(heap'[id].DataUsage, heap[id].DataUsage)

C24_DataUsageMonotonic == [][C24_Step]_vars

\* C25: a pod is created only when its ConfigMap exists; a create that
\* failed at the ConfigMap has made one platform call and no poll and has
\* left no pod; a readiness poll is made only for a pod that was created.
C25_Step ==
    /\ \A id \in IDs :
          (PodNameOf(id) \in DOMAIN pods' /\ PodNameOf(id) \notin DOMAIN pods)
             => ConfigMapNameOf(id) \in configMaps
    /\ (resp'.kind = "create" /\ resp'.stage = "configmap")
          => /\ PodNameOf(resp'.uid) \notin DOMAIN pods'
             /\ ConfigMapNameOf(resp'.uid) \notin configMaps'
             /\ resp'.calls = 1
             /\ resp'.polls = 0
    /\ \A r \in Requests :
          reqs'[r].polls > reqs[r].polls
             => /\ PodNameOf(reqs[r].uid) \in DOMAIN pods
                /\ ConfigMapNameOf(reqs[r].uid) \in configMaps
    /\ (resp'.kind = "create" /\ resp'.polls > 0)
          => /\ PodNameOf(resp'.uid) \in DOMAIN pods
             /\ ConfigMapNameOf(resp'.uid) \in configMaps

C25_PodAfterConfigMap == [][C25_Step]_vars

\* C25 witness: a create has just failed at its ConfigMap and has no pod,
\* while the pod of another create exists.
C25_Witness ==
    /\ resp.kind = "create"
    /\ resp.stage = "configmap"
    /\ PodNameOf(resp.uid) \notin DOMAIN pods
    /\ pods # Empty

\* C26: every record of the registry has a public key, a private key, a
\* rendered configuration and a pod name, and a record enters the registry
\* only when its pod exists and is reported running.
C26_Step ==
    /\ \A id \in users' :
          /\ heap'[id].PublicKey # ""
          /\ heap'[id].PrivateKey # ""
          /\ heap'[id].ConfigData # <<>>
          /\ heap'[id].PodName # ""
    /\ \A id \in users' \ users :
          /\ heap'[id].PodName = PodNameOf(id)
          /\ PodNameOf(id) \in DOMAIN pods
          /\ pods[PodNameOf(id)] = "Running"

C26_RegistryRecordsProvisioned == [][C26_Step]_vars

\* C26 witness: two records are in the registry, one of them with its pod
\* running.
C26_Witness ==
    /\ Cardinality(users) = 2
    /\ \E id \in users :
          /\ heap[id].PodName \in DOMAIN pods
          /\ pods[heap[id].PodName] = "Running"

\* C27: the three status counts of calculateStats add up to its total, and
\* every registry record has one of the three statuses it counts.
C27_StatusCountsPartition ==
    LET stats == calculateStats(heap, users)
    IN  /\ stats.active_users + stats.inactive_users + stats.suspended_users
               = stats.total_users
        /\ \A id \in users : heap[id].Status \in {"active", "inactive", "suspended"}

\* C28: a create answered 201 raises the total-connections counter by one,
\* and a create answered 400, 409 or 500 leaves it as it was.
C28_Step ==
    /\ (resp'.kind = "create" /\ resp'.code = StatusCreated)
          => totalConnections' = totalConnections + 1
    /\ (resp'.kind = "create"
          /\ resp'.code \in {StatusBadRequest, StatusConflict, StatusInternalServerError})
          => totalConnections' = totalConnections

C28_CreateCountsOnce == [][C28_Step]_vars

\* The handlers that took the step: the one that answered, or the one that
\* went on to its next call.
ActingKinds ==
    IF resp'.kind # ""
    THEN {resp'.kind}
    ELSE {reqs'[r].kind : r \in {x \in Requests : reqs'[x] # reqs[x]}}

ActingIDs ==
    IF resp'.kind # ""
    THEN {resp'.uid}
    ELSE {reqs'[r].uid : r \in {x \in Requests : reqs'[x] # reqs[x]}}

\* C29: list, config and stats change no registry record; get changes at
\* most the Status of the requested record; create and delete add or remove
\* only their own record and change no field of any record that stays.
C29_Step ==
    /\ (ActingKinds \cap {"list", "config", "stats"} # {})
          => /\ users' = users
             /\ \A id \in users : heap'[id] = heap[id]
    /\ ("get" \in ActingKinds)
          => /\ users' = users
             /\ \A id \in users :
                   /\ id \notin ActingIDs => heap'[id] = heap[id]
                   /\ [heap'[id] EXCEPT !.Status = heap[id].Status] = heap[id]
    /\ (ActingKinds \cap {"create", "delete"} # {})
          => /\ (users' \ users) \cup (users \ users') \subseteq ActingIDs
             /\ \A id \in users \cap users' : heap'[id] = heap[id]

C29_FrameOfHandlers == [][C29_Step]_vars

\* C29 witness: a get has just written a pod phase into the requested
\* record while another record is in the registry.
C29_Witness ==
    /\ resp.kind = "get"
    /\ resp.uid \in users
    /\ heap[resp.uid].Status \in PodPhases
    /\ \E id \in users : id # resp.uid /\ heap[id].Status = "active"

\* C30: when a createUser call completes, resolved or rejected, the
\* loading flag of the store is false.
C30_Step ==
    \A call \in ui.calls \ ui'.calls :
        call.fn = "createUser" => ~ui'.state.loading

C30_LoadingEndsWithCreate == [][C30_Step]_vars

====
